---- MODULE Spec2Model ----
(***************************************************************************)
(* A model of the sitemap document model and parser of                     *)
(* src/sitemap_parser/__init__.py: the records Sitemap and Url, the lazy   *)
(* collections SitemapIndex and UrlSet, the facade SiteMapParser and the   *)
(* JSONExporter.                                                           *)
(*                                                                         *)
(* Python values are tagged records, so that None, strings, floats and     *)
(* datetimes can be compared with each other:                              *)
(*    PyNone, PyStr(s), PyFloat(tenths), PyNaN, a datetime record.         *)
(* An XML document is a record: either not well-formed, or a root element  *)
(* [ns, local, children]; a child node is [kind, local, subs] and a        *)
(* sub-element is [local, text], where local is what the code reads with   *)
(* xpath("local-name()") and text is ele.text (PyNone for an empty         *)
(* element). The parser's collections and generators hold the root by      *)
(* reference (RootRef); the variable tree is the element tree itself.       *)
(***************************************************************************)
EXTENDS Integers, Sequences, FiniteSets, TLC

----------------------------------------------------------------------------
(* Bounds of the model. *)

\* The largest number of immediate children of a root element.
MaxChildren == 2

----------------------------------------------------------------------------
(* Python values. *)

PyNone == [t |-> "None"]

PyStr(s) == [t |-> "str", v |-> s]

\* A float that is a whole number of tenths (0.8 is 8 tenths).
PyFloat(n) == [t |-> "float", nan |-> FALSE, tenths |-> n]

PyNaN == [t |-> "float", nan |-> TRUE, tenths |-> 0]

\* datetime(year, month, day, hour, minute, second, tzinfo): aware says whether
\* tzinfo is set, and utcoffset is then the offset in minutes (0 when naive).
PyDateTime(y, mo, d, h, mi, s, aware, off) ==
    [t |-> "datetime", year |-> y, month |-> mo, day |-> d,
     hour |-> h, minute |-> mi, second |-> s, aware |-> aware, utcoffset |-> off]

\* The outcome of a call: a returned value or a raised exception.
Return(v) == [ok |-> TRUE, val |-> v]

Raise(exc, msg) == [ok |-> FALSE, exc |-> exc, msg |-> msg]

----------------------------------------------------------------------------
(* Strings. *)

StartsWith(s, p) == Len(s) >= Len(p) /\ SubSeq(s, 1, Len(p)) = p

Digits == <<"0", "1", "2", "3", "4", "5", "6", "7", "8", "9">>

DigitSet == {Digits[i] : i \in 1..10}

DigitTable == [c \in DigitSet |-> (CHOOSE i \in 1..10 : Digits[i] = c) - 1]

IsDigit(c) == c \in DigitSet

DigitVal(c) == DigitTable[c]

CharAt(s, i) == SubSeq(s, i, i)

AllDigits(s, from, to) == \A i \in from..to : IsDigit(CharAt(s, i))

RECURSIVE NumVal(_, _, _)
\* The decimal number written in s[from..to].
NumVal(s, from, to) ==
    IF from > to THEN 0
    ELSE 10 * NumVal(s, from, to - 1) + DigitVal(CharAt(s, to))

\* n written with two digits (n in 0..99).
TwoDigits(n) == Digits[(n \div 10) + 1] \o Digits[(n % 10) + 1]

FourDigits(n) == TwoDigits(n \div 100) \o TwoDigits(n % 100)

----------------------------------------------------------------------------
(* dateutil.parser.isoparse and datetime.isoformat, for the ISO-8601 shapes  *)
(* YYYY-MM-DD, YYYY-MM-DDTHH:MM:SS, and the latter followed by Z or +-HH:MM. *)
(* Every other text of the model's documents is one isoparse rejects.        *)

IsDateShape(s) ==
    /\ Len(s) >= 10
    /\ AllDigits(s, 1, 4) /\ CharAt(s, 5) = "-"
    /\ AllDigits(s, 6, 7) /\ CharAt(s, 8) = "-"
    /\ AllDigits(s, 9, 10)
    /\ NumVal(s, 6, 7) \in 1..12
    /\ NumVal(s, 9, 10) \in 1..31
    /\ NumVal(s, 1, 4) >= 1

IsTimeShape(s) ==
    /\ Len(s) >= 19
    /\ CharAt(s, 11) = "T"
    /\ AllDigits(s, 12, 13) /\ CharAt(s, 14) = ":"
    /\ AllDigits(s, 15, 16) /\ CharAt(s, 17) = ":"
    /\ AllDigits(s, 18, 19)
    /\ NumVal(s, 12, 13) \in 0..23
    /\ NumVal(s, 15, 16) \in 0..59
    /\ NumVal(s, 18, 19) \in 0..59

IsOffsetShape(s) ==
    /\ Len(s) = 25
    /\ CharAt(s, 20) \in {"+", "-"}
    /\ AllDigits(s, 21, 22) /\ CharAt(s, 23) = ":"
    /\ AllDigits(s, 24, 25)
    /\ NumVal(s, 21, 22) \in 0..23
    /\ NumVal(s, 24, 25) \in 0..59

OffsetMinutes(s) ==
    LET m == 60 * NumVal(s, 21, 22) + NumVal(s, 24, 25)
    IN  IF CharAt(s, 20) = "-" THEN 0 - m ELSE m

isoparse(s) ==
    IF IsDateShape(s) /\ Len(s) = 10
    THEN Return(PyDateTime(NumVal(s, 1, 4), NumVal(s, 6, 7), NumVal(s, 9, 10),
                           0, 0, 0, FALSE, 0))
    ELSE IF IsDateShape(s) /\ IsTimeShape(s)
              /\ (Len(s) = 19 \/ (Len(s) = 20 /\ CharAt(s, 20) = "Z")
                    \/ IsOffsetShape(s))
    THEN Return(PyDateTime(NumVal(s, 1, 4), NumVal(s, 6, 7), NumVal(s, 9, 10),
                           NumVal(s, 12, 13), NumVal(s, 15, 16), NumVal(s, 18, 19),
                           Len(s) > 19,
                           IF Len(s) = 25 THEN OffsetMinutes(s) ELSE 0))
    ELSE Raise("ValueError", "isoparse")

isoformat(dt) ==
    LET date == FourDigits(dt.year) \o "-" \o TwoDigits(dt.month) \o "-"
                  \o TwoDigits(dt.day)
        time == TwoDigits(dt.hour) \o ":" \o TwoDigits(dt.minute) \o ":"
                  \o TwoDigits(dt.second)
        abs  == IF dt.utcoffset < 0 THEN 0 - dt.utcoffset ELSE dt.utcoffset
        off  == IF ~dt.aware THEN ""
                ELSE (IF dt.utcoffset < 0 THEN "-" ELSE "+")
                       \o TwoDigits(abs \div 60) \o ":" \o TwoDigits(abs % 60)
    IN  date \o "T" \o time \o off

----------------------------------------------------------------------------
(* float(text), for the texts "D.D" and "-D.D" (a whole number of tenths)    *)
(* and "nan". Every other text of the model's documents is one float()       *)
(* rejects.                                                                  *)

IsTenthsShape(s) ==
    \/ Len(s) = 3 /\ IsDigit(CharAt(s, 1)) /\ CharAt(s, 2) = "."
                  /\ IsDigit(CharAt(s, 3))
    \/ Len(s) = 4 /\ CharAt(s, 1) = "-" /\ IsDigit(CharAt(s, 2))
                  /\ CharAt(s, 3) = "." /\ IsDigit(CharAt(s, 4))
                  /\ s # "-0.0"

float(s) ==
    IF s = "nan" THEN Return(PyNaN)
    ELSE IF IsTenthsShape(s)
    THEN Return(PyFloat(IF Len(s) = 3
                        THEN 10 * DigitVal(CharAt(s, 1)) + DigitVal(CharAt(s, 3))
                        ELSE 0 - (10 * DigitVal(CharAt(s, 2))
                                    + DigitVal(CharAt(s, 4)))))
    ELSE Raise("ValueError", "could not convert string to float: '" \o s \o "'")

\* a < b on floats: every comparison with nan is false.
FloatLt(a, b) == ~a.nan /\ ~b.nan /\ a.tenths < b.tenths

----------------------------------------------------------------------------
(* BaseData, Sitemap and Url. *)

\* str(value) for the values an element's text can take.
str(value) == IF value.t = "str" THEN value.v ELSE "None"

\* Mutation of loc_setter: the match against http[s]?:// is left out.
loc_setter_unchecked(value) == Return(PyStr(str(value)))

\* BaseData.loc setter: the value stored in _loc, or the error.
loc_setter(value) ==
    LET s == str(value)
    IN  IF StartsWith(s, "http://") \/ StartsWith(s, "https://")
        THEN Return(PyStr(s))
        ELSE Raise("ValueError", s \o " is not a valid URL")

\* BaseData.lastmod setter.
lastmod_setter(value) ==
    IF value # PyNone THEN isoparse(value.v) ELSE Return(PyNone)

valid_freqs ==
    {"always", "hourly", "daily", "weekly", "monthly", "yearly", "never"}

\* Mutation of changefreq_setter: the membership test is left out.
changefreq_setter_any(frequency) == Return(frequency)

\* Url.changefreq setter.
changefreq_setter(frequency) ==
    IF frequency # PyNone /\ frequency.v \notin valid_freqs
    THEN Raise("ValueError", "'" \o frequency.v \o "' is not an allowed value")
    ELSE Return(frequency)

\* float(value) for a value that is a float already, or a text.
float_of(value) == IF value.t = "float" THEN Return(value) ELSE float(value.v)

\* Url.priority setter, past its float(priority): the float is stored unless
\* it is below 0.0 or above 1.0, and None is stored as it is.
priority_setter(priority) ==
    IF priority # PyNone
         /\ (FloatLt(priority, PyFloat(0)) \/ FloatLt(PyFloat(10), priority))
    THEN Raise("ValueError", "priority is not between 0.0 and 1.0")
    ELSE Return(priority)

\* A keyword dictionary's value for a parameter that has the default None.
KwOrNone(kw, name) == IF name \in DOMAIN kw THEN kw[name] ELSE PyNone

SitemapFields == <<"loc", "lastmod">>

UrlFields == <<"loc", "lastmod", "changefreq", "priority">>

Range(seq) == {seq[i] : i \in 1..Len(seq)}

\* Sitemap(**kw): loc is required, lastmod defaults to None, and any other
\* keyword is a TypeError of the call itself.
Sitemap(kw) ==
    IF ~(DOMAIN kw \subseteq Range(SitemapFields))
    THEN Raise("TypeError", "unexpected keyword argument")
    ELSE IF "loc" \notin DOMAIN kw
    THEN Raise("TypeError", "missing 1 required positional argument: 'loc'")
    ELSE LET l == loc_setter(kw["loc"])
             m == lastmod_setter(KwOrNone(kw, "lastmod"))
         IN  IF ~l.ok THEN l
             ELSE IF ~m.ok THEN m
             ELSE Return([t |-> "Sitemap", loc |-> l.val, lastmod |-> m.val])

\* Mutation of Url: the four assignments of __init__ run in the reverse order.
Url_priority_first(kw) ==
    IF ~(DOMAIN kw \subseteq Range(UrlFields))
    THEN Raise("TypeError", "unexpected keyword argument")
    ELSE IF "loc" \notin DOMAIN kw
    THEN Raise("TypeError", "missing 1 required positional argument: 'loc'")
    ELSE LET l == loc_setter(kw["loc"])
             m == lastmod_setter(KwOrNone(kw, "lastmod"))
             c == changefreq_setter(KwOrNone(kw, "changefreq"))
             p == KwOrNone(kw, "priority")
             f == IF p # PyNone THEN float_of(p) ELSE Return(PyNone)
             q == IF f.ok THEN priority_setter(f.val) ELSE f
         IN  IF ~q.ok THEN q
             ELSE IF ~c.ok THEN c
             ELSE IF ~m.ok THEN m
             ELSE IF ~l.ok THEN l
             ELSE Return([t |-> "Url", loc |-> l.val, lastmod |-> m.val,
                          changefreq |-> c.val, priority |-> q.val])

\* Url(**kw): loc is required, the other three default to None. The priority
\* reaches its setter as a float already, so that the setter's own float()
\* leaves it as it is.
Url(kw) ==
    IF ~(DOMAIN kw \subseteq Range(UrlFields))
    THEN Raise("TypeError", "unexpected keyword argument")
    ELSE IF "loc" \notin DOMAIN kw
    THEN Raise("TypeError", "missing 1 required positional argument: 'loc'")
    ELSE LET l == loc_setter(kw["loc"])
             m == lastmod_setter(KwOrNone(kw, "lastmod"))
             c == changefreq_setter(KwOrNone(kw, "changefreq"))
             p == KwOrNone(kw, "priority")
             f == IF p # PyNone THEN float_of(p) ELSE Return(PyNone)
             q == IF f.ok THEN priority_setter(f.val) ELSE f
         IN  IF ~l.ok THEN l
             ELSE IF ~m.ok THEN m
             ELSE IF ~c.ok THEN c
             ELSE IF ~q.ok THEN q
             ELSE Return([t |-> "Url", loc |-> l.val, lastmod |-> m.val,
                          changefreq |-> c.val, priority |-> q.val])

----------------------------------------------------------------------------
(* XML elements. *)

\* A sub-element of a <url> or <sitemap>: its local name and its text.
Sub(local, text) == [local |-> local, text |-> text]

\* A child node of the root: an element with sub-elements, or a comment.
Elem(local, subs) == [kind |-> "element", local |-> local, subs |-> subs]

Comment == [kind |-> "comment", local |-> "", subs |-> <<>>]

\* The index of the last sub-element named name.
LastNamed(subs, name) ==
    CHOOSE i \in 1..Len(subs) :
        /\ subs[i].local = name
        /\ \A j \in (i + 1)..Len(subs) : subs[j].local # name

\* The names of the sub-elements.
SubNames(subs) == {subs[i].local : i \in 1..Len(subs)}

\* UrlSet.url_from_url_element: the dictionary keeps the text of the allowed
\* sub-elements (a later one of the same name replaces an earlier one).
url_from_url_element(url_element) ==
    LET subs     == url_element.subs
        url_data == [name \in SubNames(subs) \cap Range(UrlFields) |->
                        subs[LastNamed(subs, name)].text]
    IN  Url(url_data)

\* Mutation of sitemap_from_sitemap_element: a missing text goes into the
\* dictionary as None, as url_from_url_element does it.
sitemap_from_sitemap_element_absent(sitemap_element) ==
    LET subs         == sitemap_element.subs
        sitemap_data == [name \in SubNames(subs) |->
                            subs[LastNamed(subs, name)].text]
    IN  Sitemap(sitemap_data)

\* SitemapIndex.sitemap_from_sitemap_element: every sub-element goes into the
\* dictionary, a missing text as the empty string.
sitemap_from_sitemap_element(sitemap_element) ==
    LET subs         == sitemap_element.subs
        value(e)     == IF e.text # PyNone THEN e.text ELSE PyStr("")
        sitemap_data == [name \in SubNames(subs) |->
                            value(subs[LastNamed(subs, name)])]
    IN  Sitemap(sitemap_data)

\* Mutation of UrlSetItems: the walk starts at the second child.
UrlSetItems_skip(url_set_element) ==
    IF url_set_element.children = <<>> THEN <<>>
    ELSE Tail(url_set_element.children)

\* The nodes "for url_element in url_set_element" visits: every child node of
\* the root, comments included.
UrlSetItems(url_set_element) == url_set_element.children

IsElementNode(n) == n.kind = "element"

\* Mutation of SitemapIndexItems: the walk starts at the second child element.
SitemapIndexItems_skip(index_element) ==
    IF SelectSeq(index_element.children, IsElementNode) = <<>> THEN <<>>
    ELSE Tail(SelectSeq(index_element.children, IsElementNode))

\* The nodes index_element.findall("./*") returns: the child elements.
SitemapIndexItems(index_element) ==
    SelectSeq(index_element.children, IsElementNode)

----------------------------------------------------------------------------
(* The documents of the model. *)

NS == "http://www.sitemaps.org/schemas/sitemap/0.9"

\* The texts the sub-elements of the model's documents carry.
Loc1 == PyStr("https://example.com/")

Loc2 == PyStr("http://www.example.com/page/a/2")

\* The child nodes the model's documents are built from.
ChildShapes ==
    { Elem("url", <<Sub("loc", Loc1), Sub("lastmod", PyStr("2024-01-01")),
                    Sub("changefreq", PyStr("daily")),
                    Sub("priority", PyStr("0.8"))>>),
      Elem("url", <<Sub("loc", Loc2)>>),
      Elem("url", <<Sub("loc", Loc1), Sub("changefreq", PyStr("bogus"))>>),
      Elem("sitemap", <<Sub("loc", Loc2),
                        Sub("lastmod", PyStr("2023-01-02T00:00:00+00:00"))>>),
      Elem("sitemap", <<Sub("loc", Loc1)>>),
      Comment }

ChildSeqs == UNION {[1..n -> ChildShapes] : n \in 0..MaxChildren}

RootNames == {"sitemapindex", "urlset", "html"}

Roots == [ns : {"", NS}, local : RootNames, children : ChildSeqs]

MalformedDoc == [wellformed |-> FALSE]

Docs == {MalformedDoc} \cup {[wellformed |-> TRUE, root |-> r] : r \in Roots}

\* What the constructor is given: the raw-data flag, the document the source
\* stands for (the text itself, or the body the server holds for the URI),
\* and how a request for the URI ends.
Sources ==
    [is_data_string : {TRUE}, doc : Docs, net : {"unused"}]
      \cup [is_data_string : {FALSE}, doc : Docs,
            net : {"ok", "transport_error", "http_error"}]

\* Child elements that are not as the protocol wants them, beside one that
\* is: a loc that is no URL, no loc at all, a sub-element of another
\* vocabulary, and a priority text float() reads as nan.
IrregularChildShapes ==
    { Elem("url", <<Sub("loc", Loc1)>>),
      Elem("sitemap", <<Sub("loc", PyStr("invalid-url"))>>),
      Elem("url", <<Sub("lastmod", PyStr("2024-01-01"))>>),
      Elem("url", <<Sub("loc", Loc2), Sub("image", PyStr("photo"))>>),
      Elem("url", <<Sub("loc", Loc1), Sub("priority", PyStr("nan"))>>) }

IrregularChildSeqs ==
    UNION {[1..n -> IrregularChildShapes] : n \in 0..MaxChildren}

\* Raw-data sources whose documents are built from the irregular children.
IrregularSources ==
    [is_data_string : {TRUE},
     doc : {[wellformed |-> TRUE, root |-> r] :
               r \in [ns : {NS}, local : {"sitemapindex", "urlset"},
                      children : IrregularChildSeqs]},
     net : {"unused"}]

\* Children with an empty field element, beside a valid one: a <loc/> and a
\* <lastmod/> without text.
FaultyChildShapes ==
    { Elem("sitemap", <<Sub("loc", Loc2), Sub("lastmod", PyStr("2024-01-01"))>>),
      Elem("sitemap", <<Sub("loc", PyNone)>>),
      Elem("sitemap", <<Sub("loc", Loc1), Sub("lastmod", PyNone)>>) }

FaultyChildSeqs == UNION {[1..n -> FaultyChildShapes] : n \in 0..MaxChildren}

FaultyDocs ==
    {MalformedDoc}
      \cup {[wellformed |-> TRUE, root |-> r] :
               r \in [ns : {NS}, local : {"sitemapindex", "urlset"},
                      children : FaultyChildSeqs]}

\* Sources of every way a call can fail: a request that fails, a text that
\* is no XML, a root of the other kind, a child that fails validation.
FaultySources ==
    [is_data_string : {TRUE}, doc : FaultyDocs, net : {"unused"}]
      \cup [is_data_string : {FALSE}, doc : FaultyDocs,
            net : {"ok", "transport_error", "http_error"}]

----------------------------------------------------------------------------
(* The state. *)

VARIABLES
    source,            \* the constructor's arguments
    pc,                \* "new", "constructed" or "failed"
    error,             \* the exception the constructor raised, or PyNone
    fetches,           \* how often download_uri_data has been called
    is_sitemap_index,  \* SiteMapParser.is_sitemap_index
    _sitemaps,         \* SiteMapParser._sitemaps
    _url_set,          \* SiteMapParser._url_set
    tree,              \* the element tree bytes_to_element built, or PyNone
    gens,              \* the generator each iterator slot holds
    last,              \* the last call and its outcome
    obj,               \* the Url or Sitemap a caller has constructed, or PyNone
    url                \* the address a caller is formatting, a string

vars == <<source, pc, error, fetches, is_sitemap_index, _sitemaps, _url_set,
          tree, gens, last, obj, url>>

\* The iterators a caller holds at the same time: two, as in
\* test_get_urls_multiple_iters and test_get_sitemaps_multiple_iters.
IterIds == {1, 2}

\* The collections and the generators hold the root element by reference:
\* RootRef names the one element object of the parser, tree is what it holds.
RootRef == [t |-> "Element", id |-> "root"]

Deref(element) == tree

\* The parser object, as the methods read it.
Self == [is_sitemap_index |-> is_sitemap_index, _sitemaps |-> _sitemaps,
         _url_set |-> _url_set]

----------------------------------------------------------------------------
(* Fetching and parsing. *)

\* Mutation of download_uri_data: r.raise_for_status() is left out, so the
\* body of a non-success response is returned like any other.
download_uri_data_nostatus(src) ==
    IF src.net = "transport_error" THEN Raise("TransportError", "client.get")
    ELSE Return(src.doc)

\* download_uri_data: the response body, or the transport error of
\* client.get, or the error r.raise_for_status() raises.
download_uri_data(src) ==
    IF src.net = "transport_error" THEN Raise("TransportError", "client.get")
    ELSE IF src.net = "http_error" THEN Raise("HTTPStatusError", "raise_for_status")
    ELSE Return(src.doc)

\* Mutation of bytes_to_element: the handler raises a generic exception in
\* place of lxml's.
bytes_to_element_generic(data) ==
    IF data.wellformed THEN Return(data.root)
    ELSE Raise("Exception", "Error parsing XML")

\* bytes_to_element: the root element, or lxml's syntax error re-raised.
bytes_to_element(data) ==
    IF data.wellformed THEN Return(data.root)
    ELSE Raise("XMLSyntaxError", "Error parsing XML")

\* xpath("/*[local-name()='sitemapindex']") on the root: the namespace plays
\* no part.
_is_sitemap_index_element(element) == element.local = "sitemapindex"

_is_url_set_element(element) == element.local = "urlset"

SitemapIndex(index_element) ==
    [t |-> "SitemapIndex", index_element |-> index_element]

UrlSet(urlset_element) == [t |-> "UrlSet", urlset_element |-> urlset_element]

\* Mutation of _initialize: the UrlSet is stored only for a <urlset> root.
_initialize_checked(src) ==
    LET data == IF src.is_data_string THEN Return(src.doc)
                ELSE download_uri_data(src)
        root == bytes_to_element(data.val)
        idx  == _is_sitemap_index_element(root.val)
    IN  IF ~data.ok THEN data
        ELSE IF ~root.ok THEN root
        ELSE Return([root_element |-> root.val,
                     is_sitemap_index |-> idx,
                     _sitemaps |-> IF idx THEN SitemapIndex(RootRef) ELSE PyNone,
                     _url_set  |-> IF _is_url_set_element(root.val)
                                   THEN UrlSet(RootRef) ELSE PyNone])

\* Mutation of Fetches: the source is downloaded whatever the flag says.
Fetches_always(src) == 1

\* How often _initialize calls download_uri_data: never for raw data, once
\* otherwise, before bytes_to_element.
Fetches(src) == IF src.is_data_string THEN 0 ELSE 1

\* Mutation of _initialize: the records of all children are built once at
\* construction, and the first error leaves the constructor.
_initialize_eager(src) ==
    LET data  == IF src.is_data_string THEN Return(src.doc)
                 ELSE download_uri_data(src)
        root  == bytes_to_element(data.val)
        idx   == _is_sitemap_index_element(root.val)
        items == IF idx THEN SitemapIndexItems(root.val) ELSE UrlSetItems(root.val)
        build(node) == IF idx THEN sitemap_from_sitemap_element(node)
                       ELSE url_from_url_element(node)
        bad   == {k \in 1..Len(items) : ~build(items[k]).ok}
    IN  IF ~data.ok THEN data
        ELSE IF ~root.ok THEN root
        ELSE IF bad # {} THEN build(items[CHOOSE k \in bad : \A j \in bad : k <= j])
        ELSE Return([root_element |-> root.val,
                     is_sitemap_index |-> idx,
                     _sitemaps |-> IF idx THEN SitemapIndex(RootRef) ELSE PyNone,
                     _url_set  |-> IF idx THEN PyNone ELSE UrlSet(RootRef)])

\* SiteMapParser.__init__ and _initialize: the root element and the fields of
\* the new parser, or the exception that leaves the constructor.
_initialize(src) ==
    LET data == IF src.is_data_string THEN Return(src.doc)
                ELSE download_uri_data(src)
        root == bytes_to_element(data.val)
        idx  == _is_sitemap_index_element(root.val)
    IN  IF ~data.ok THEN data
        ELSE IF ~root.ok THEN root
        ELSE Return([root_element |-> root.val,
                     is_sitemap_index |-> idx,
                     _sitemaps |-> IF idx THEN SitemapIndex(RootRef) ELSE PyNone,
                     _url_set  |-> IF idx THEN PyNone ELSE UrlSet(RootRef)])

----------------------------------------------------------------------------
(* The public methods of SiteMapParser. *)

has_sitemaps(self) == self.is_sitemap_index

\* Mutation of has_urls: the negation is lost.
has_urls_same(self) == self.is_sitemap_index

has_urls(self) == ~self.is_sitemap_index

\* Mutation of get_sitemaps: the stored field is returned unguarded.
get_sitemaps_unguarded(self) == Return(self._sitemaps)

\* Mutation of get_sitemaps: the wrong kind is reported with the exception
\* class of the field setters.
get_sitemaps_valueerror(self) ==
    IF ~has_sitemaps(self)
    THEN Raise("ValueError", "Method called when root is not a <sitemapindex>")
    ELSE IF self._sitemaps = PyNone
    THEN Raise("ValueError", "Sitemaps are not available")
    ELSE Return(self._sitemaps)

get_sitemaps(self) ==
    IF ~has_sitemaps(self)
    THEN Raise("KeyError", "Method called when root is not a <sitemapindex>")
    ELSE IF self._sitemaps = PyNone
    THEN Raise("KeyError", "Sitemaps are not available")
    ELSE Return(self._sitemaps)

\* Mutation of get_urls: the message is never refined.
get_urls_generic(self) ==
    IF ~has_urls(self)
    THEN Raise("KeyError", "Method called when root is not a <urlset>")
    ELSE IF self._url_set = PyNone
    THEN Raise("KeyError", "URLs are not available")
    ELSE Return(self._url_set)

get_urls(self) ==
    IF ~has_urls(self)
    THEN Raise("KeyError",
               IF self.is_sitemap_index
               THEN "Method called when root is a <sitemapindex>. Use 'get_sitemaps()' instead"
               ELSE "Method called when root is not a <urlset>")
    ELSE IF self._url_set = PyNone
    THEN Raise("KeyError", "URLs are not available")
    ELSE Return(self._url_set)

----------------------------------------------------------------------------
(* Generators: UrlSet.__iter__ and SitemapIndex.__iter__. *)

NoGen == [state |-> "none", kind |-> "none", element |-> PyNone,
          pos |-> 0, out |-> <<>>]

\* A generator that has not run yet. pos counts the nodes its loop has
\* consumed, out lists what it has yielded.
NewGen(kind, element) ==
    [state |-> "suspended", kind |-> kind, element |-> element,
     pos |-> 0, out |-> <<>>]

\* Mutation of __iter__: the collection keeps one cursor, so a new iterator
\* starts where the furthest live iterator over the same element stands.
__iter__shared(collection) ==
    LET element == IF collection.t = "UrlSet" THEN collection.urlset_element
                   ELSE collection.index_element
        live    == {i \in IterIds : gens[i].state = "suspended"
                                      /\ gens[i].element = element}
        far     == IF live = {} THEN NewGen(collection.t, element)
                   ELSE gens[CHOOSE i \in live :
                                \A j \in live : gens[j].pos <= gens[i].pos]
    IN  [far EXCEPT !.out = <<>>]

\* collection.__iter__(): a new generator over the wrapped element.
__iter__(collection) ==
    IF collection.t = "UrlSet"
    THEN NewGen("UrlSet", collection.urlset_element)
    ELSE NewGen("SitemapIndex", collection.index_element)

\* The nodes the generator's for loop walks.
GenItems(g) ==
    IF g.kind = "UrlSet" THEN UrlSetItems(Deref(g.element))
    ELSE SitemapIndexItems(Deref(g.element))

\* The record the generator's loop body builds from a node.
GenBuild(g, node) ==
    IF g.kind = "UrlSet" THEN url_from_url_element(node)
    ELSE sitemap_from_sitemap_element(node)

\* Mutation of gen_next: the loop body's exception is caught around the
\* yield, so the generator stays alive behind the child that failed.
gen_next_resumable(g) ==
    IF g.state = "finished" \/ g.pos >= Len(GenItems(g))
    THEN [gen |-> [g EXCEPT !.state = "finished"],
          res |-> Raise("StopIteration", "")]
    ELSE LET r == GenBuild(g, GenItems(g)[g.pos + 1])
         IN  IF r.ok
             THEN [gen |-> [g EXCEPT !.pos = g.pos + 1,
                                     !.out = Append(g.out, r.val)],
                   res |-> r]
             ELSE [gen |-> [g EXCEPT !.pos = g.pos + 1], res |-> r]

\* Mutation of gen_next: a generator that an exception ended goes on behind
\* the child that failed when it is advanced again.
gen_next_reviving(g) ==
    LET p == IF g.state = "finished" THEN g.pos + 1 ELSE g.pos
    IN  IF p >= Len(GenItems(g))
        THEN [gen |-> [g EXCEPT !.state = "finished"],
              res |-> Raise("StopIteration", "")]
        ELSE LET r == GenBuild(g, GenItems(g)[p + 1])
             IN  IF r.ok
                 THEN [gen |-> [g EXCEPT !.state = "suspended", !.pos = p + 1,
                                         !.out = Append(g.out, r.val)],
                       res |-> r]
                 ELSE [gen |-> [g EXCEPT !.state = "finished", !.pos = p],
                       res |-> r]

\* next(g): the generator afterwards, and what the call returns or raises.
\* An exception in the loop body ends the generator.
gen_next(g) ==
    IF g.state = "finished" \/ g.pos >= Len(GenItems(g))
    THEN [gen |-> [g EXCEPT !.state = "finished"],
          res |-> Raise("StopIteration", "")]
    ELSE LET r == GenBuild(g, GenItems(g)[g.pos + 1])
         IN  IF r.ok
             THEN [gen |-> [g EXCEPT !.pos = g.pos + 1,
                                     !.out = Append(g.out, r.val)],
                   res |-> r]
             ELSE [gen |-> [g EXCEPT !.state = "finished"], res |-> r]

----------------------------------------------------------------------------
(* JSONExporter. *)

RECURSIVE NatStr(_)
\* str(n) for a natural number.
NatStr(n) == IF n < 10 THEN Digits[n + 1] ELSE NatStr(n \div 10) \o Digits[(n % 10) + 1]

\* json.dumps of a float.
FloatRepr(f) ==
    IF f.nan THEN "NaN"
    ELSE LET a == IF f.tenths < 0 THEN 0 - f.tenths ELSE f.tenths
         IN  (IF f.tenths < 0 THEN "-" ELSE "")
               \o NatStr(a \div 10) \o "." \o Digits[(a % 10) + 1]

\* json.dumps of a field value (the texts of the model need no escaping).
JsonValue(v) ==
    IF v.t = "None" THEN "null"
    ELSE IF v.t = "float" THEN FloatRepr(v)
    ELSE "\"" \o v.v \o "\""

RECURSIVE JsonRow(_, _)
\* The members of one object, from the i-th on.
JsonRow(row, i) ==
    IF i > Len(row) THEN ""
    ELSE (IF i > 1 THEN ", " ELSE "")
           \o "\"" \o row[i][1] \o "\": " \o JsonValue(row[i][2])
           \o JsonRow(row, i + 1)

RECURSIVE JsonRows(_, _)
JsonRows(rows, i) ==
    IF i > Len(rows) THEN ""
    ELSE (IF i > 1 THEN ", " ELSE "")
           \o "{" \o JsonRow(rows[i], 1) \o "}" \o JsonRows(rows, i + 1)

\* json.dumps of a list of dictionaries.
dumps(rows) == "[" \o JsonRows(rows, 1) \o "]"

\* One row of _collate: the fields in order, a datetime as its isoformat().
CollateRow(fields, sm) ==
    [i \in 1..Len(fields) |->
        LET v == sm[fields[i]]
        IN  <<fields[i], IF v.t = "datetime" THEN PyStr(isoformat(v)) ELSE v>>]

RECURSIVE CollateLoop(_, _, _)
\* One turn of the for loop of _collate: n is what next() on the generator
\* gave, a record to append, the end of the iteration, or an exception.
CollateTurn(fields, n, dump_data) ==
    IF n.res.ok
    THEN CollateLoop(fields, n.gen, Append(dump_data, CollateRow(fields, n.res.val)))
    ELSE IF n.res.exc = "StopIteration" THEN Return(dump_data)
    ELSE n.res

\* The for loop of _collate over the generator g.
CollateLoop(fields, g, dump_data) == CollateTurn(fields, gen_next(g), dump_data)

_collate(fields, row_data) == CollateLoop(fields, __iter__(row_data), <<>>)

\* dumps(...) of what _collate gave: the text of its rows, or the exception
\* that left it.
DumpRows(rows) == IF ~rows.ok THEN rows ELSE Return(PyStr(dumps(rows.val)))

export_sitemaps(self) ==
    LET c == get_sitemaps(self)
    IN  IF ~c.ok THEN c ELSE DumpRows(_collate(SitemapFields, c.val))

export_urls(self) ==
    LET c == get_urls(self)
    IN  IF ~c.ok THEN c ELSE DumpRows(_collate(UrlFields, c.val))

----------------------------------------------------------------------------
(* The actions: the constructor, and the calls a holder of the parser makes. *)

PyBool(b) == [t |-> "bool", v |-> b]

Call(op, res) == [op |-> op, res |-> res]

Init ==
    /\ source \in Sources
    /\ pc = "new"
    /\ error = PyNone
    /\ fetches = 0
    /\ is_sitemap_index = FALSE
    /\ _sitemaps = PyNone
    /\ _url_set = PyNone
    /\ tree = PyNone
    /\ gens = [i \in IterIds |-> NoGen]
    /\ last = Call("none", Return(PyNone))
    /\ obj = PyNone
    /\ url = ""

\* SiteMapParser(source, is_data_string=...).
Construct ==
    /\ pc = "new"
    /\ LET r == _initialize(source)
       IN  /\ fetches' = fetches + Fetches(source)
           /\ IF r.ok
              THEN /\ pc' = "constructed"
                   /\ is_sitemap_index' = r.val.is_sitemap_index
                   /\ _sitemaps' = r.val._sitemaps
                   /\ _url_set' = r.val._url_set
                   /\ tree' = r.val.root_element
                   /\ error' = error
              ELSE /\ pc' = "failed"
                   /\ error' = r
                   /\ UNCHANGED <<is_sitemap_index, _sitemaps, _url_set, tree>>
    /\ last' = Call("SiteMapParser", Return(PyNone))
    /\ UNCHANGED <<url, obj, source, gens>>

HasSitemapsCall ==
    /\ pc = "constructed"
    /\ last' = Call("has_sitemaps", Return(PyBool(has_sitemaps(Self))))
    /\ UNCHANGED <<url, obj, source, pc, error, fetches, is_sitemap_index, _sitemaps,
                   _url_set, tree, gens>>

HasUrlsCall ==
    /\ pc = "constructed"
    /\ last' = Call("has_urls", Return(PyBool(has_urls(Self))))
    /\ UNCHANGED <<url, obj, source, pc, error, fetches, is_sitemap_index, _sitemaps,
                   _url_set, tree, gens>>

\* Mutation of GetSitemapsCall: a missing SitemapIndex is created on demand.
GetSitemapsCall_lazy ==
    /\ pc = "constructed"
    /\ last' = Call("get_sitemaps", get_sitemaps(Self))
    /\ _sitemaps' = IF _sitemaps = PyNone
                    THEN SitemapIndex(_url_set.urlset_element) ELSE _sitemaps
    /\ UNCHANGED <<url, obj, source, pc, error, fetches, is_sitemap_index, _url_set, tree,
                   gens>>

GetSitemapsCall ==
    /\ pc = "constructed"
    /\ last' = Call("get_sitemaps", get_sitemaps(Self))
    /\ UNCHANGED <<url, obj, source, pc, error, fetches, is_sitemap_index, _sitemaps,
                   _url_set, tree, gens>>

GetUrlsCall ==
    /\ pc = "constructed"
    /\ last' = Call("get_urls", get_urls(Self))
    /\ UNCHANGED <<url, obj, source, pc, error, fetches, is_sitemap_index, _sitemaps,
                   _url_set, tree, gens>>

\* iter(parser.get_urls()) or iter(parser.get_sitemaps()), whichever accessor
\* returns a collection, kept in slot i.
IterCall(i) ==
    /\ pc = "constructed"
    /\ \E c \in {get_sitemaps(Self), get_urls(Self)} :
          /\ c.ok
          /\ gens' = [gens EXCEPT ![i] = __iter__(c.val)]
    /\ last' = Call("iter", Return(PyNone))
    /\ UNCHANGED <<url, obj, source, pc, error, fetches, is_sitemap_index, _sitemaps,
                   _url_set, tree>>

\* Mutation of NextCall: the loop removes from the tree each child it has
\* built a record from.
NextCall_consuming(i) ==
    /\ pc = "constructed"
    /\ gens[i].state # "none"
    /\ LET n == gen_next(gens[i])
       IN  /\ gens' = [gens EXCEPT ![i] = n.gen]
           /\ last' = Call("next", n.res)
           /\ tree' = IF n.res.ok
                      THEN [tree EXCEPT !.children = Tail(tree.children)]
                      ELSE tree
    /\ UNCHANGED <<url, obj, source, pc, error, fetches, is_sitemap_index, _sitemaps,
                   _url_set>>

\* next() on the generator of slot i.
NextCall(i) ==
    /\ pc = "constructed"
    /\ gens[i].state # "none"
    /\ LET n == gen_next(gens[i])
       IN  /\ gens' = [gens EXCEPT ![i] = n.gen]
           /\ last' = Call("next", n.res)
    /\ UNCHANGED <<url, obj, source, pc, error, fetches, is_sitemap_index, _sitemaps,
                   _url_set, tree>>

\* JSONExporter(parser).export_sitemaps().
ExportSitemapsCall ==
    /\ pc = "constructed"
    /\ last' = Call("export_sitemaps", export_sitemaps(Self))
    /\ UNCHANGED <<url, obj, source, pc, error, fetches, is_sitemap_index, _sitemaps,
                   _url_set, tree, gens>>

\* JSONExporter(parser).export_urls().
ExportUrlsCall ==
    /\ pc = "constructed"
    /\ last' = Call("export_urls", export_urls(Self))
    /\ UNCHANGED <<url, obj, source, pc, error, fetches, is_sitemap_index, _sitemaps,
                   _url_set, tree, gens>>

Next ==
    \/ Construct
    \/ HasSitemapsCall
    \/ HasUrlsCall
    \/ GetSitemapsCall
    \/ GetUrlsCall
    \/ \E i \in IterIds : IterCall(i)
    \/ \E i \in IterIds : NextCall(i)
    \/ ExportSitemapsCall
    \/ ExportUrlsCall

Spec == Init /\ [][Next]_vars

\* The same parser, given raw documents with irregular children.
InitIrregular ==
    /\ source \in IrregularSources
    /\ pc = "new"
    /\ error = PyNone
    /\ fetches = 0
    /\ is_sitemap_index = FALSE
    /\ _sitemaps = PyNone
    /\ _url_set = PyNone
    /\ tree = PyNone
    /\ gens = [i \in IterIds |-> NoGen]
    /\ last = Call("none", Return(PyNone))
    /\ obj = PyNone
    /\ url = ""

SpecIrregular == InitIrregular /\ [][Next]_vars

\* The same parser, given the sources of FaultySources.
InitFaulty ==
    /\ source \in FaultySources
    /\ pc = "new"
    /\ error = PyNone
    /\ fetches = 0
    /\ is_sitemap_index = FALSE
    /\ _sitemaps = PyNone
    /\ _url_set = PyNone
    /\ tree = PyNone
    /\ gens = [i \in IterIds |-> NoGen]
    /\ last = Call("none", Return(PyNone))
    /\ obj = PyNone
    /\ url = ""

SpecFaulty == InitFaulty /\ [][Next]_vars

----------------------------------------------------------------------------
(* Records a caller constructs and assigns to, with no parser involved.     *)

\* The values the tests construct records with and assign, and their like.
LocValues == {Loc1, Loc2, PyStr("www.example.com"), PyStr(""), PyNone}

LastmodValues ==
    {PyNone, PyStr("2024-01-01"), PyStr("2019-13-01T01:33:35+00:00")}

ChangefreqValues ==
    {PyNone} \cup {PyStr(f) : f \in valid_freqs \cup {"invalid", "Daily"}}

\* Floats -0.1, 0.0, 0.3, 1.0, 1.1 and 1.5, nan, and texts float() converts
\* or rejects.
PriorityValues ==
    {PyNone, PyFloat(0 - 1), PyFloat(0), PyFloat(3), PyFloat(10), PyFloat(11),
     PyFloat(15), PyNaN, PyStr("0.5"), PyStr("1.5"), PyStr("nan"), PyStr("abc")}

\* Sitemap(loc=..., lastmod=...).
SitemapKws == [loc : LocValues, lastmod : LastmodValues]

\* Url(loc=..., lastmod=..., changefreq=..., priority=...).
UrlKws ==
    [loc : {Loc1, PyStr("invalid-url")},
     lastmod : {PyNone, PyStr("2024-01-01"), PyStr("2019-13-01T01:33:35+00:00")},
     changefreq : {PyNone, PyStr("daily"), PyStr("invalid")},
     priority : {PyNone, PyFloat(10), PyFloat(15), PyStr("nan")}]

CallWith(op, arg, res) == [op |-> op, arg |-> arg, res |-> res]

\* What a caller sees of a constructor call or an assignment: nothing, or
\* the exception.
Outcome(r) == IF r.ok THEN Return(PyNone) ELSE r

InitRecords ==
    /\ source = [is_data_string |-> TRUE, doc |-> MalformedDoc, net |-> "unused"]
    /\ pc = "records"
    /\ error = PyNone
    /\ fetches = 0
    /\ is_sitemap_index = FALSE
    /\ _sitemaps = PyNone
    /\ _url_set = PyNone
    /\ tree = PyNone
    /\ gens = [i \in IterIds |-> NoGen]
    /\ last = Call("none", Return(PyNone))
    /\ obj = PyNone
    /\ url = ""

\* obj = Url(**kw): a constructor that raises leaves obj as it was.
NewUrl(kw) ==
    /\ pc = "records"
    /\ obj' = IF Url(kw).ok THEN Url(kw).val ELSE obj
    /\ last' = CallWith("Url", kw, Outcome(Url(kw)))
    /\ UNCHANGED <<url, source, pc, error, fetches, is_sitemap_index, _sitemaps,
                   _url_set, tree, gens>>

\* obj = Sitemap(**kw).
NewSitemap(kw) ==
    /\ pc = "records"
    /\ obj' = IF Sitemap(kw).ok THEN Sitemap(kw).val ELSE obj
    /\ last' = CallWith("Sitemap", kw, Outcome(Sitemap(kw)))
    /\ UNCHANGED <<url, source, pc, error, fetches, is_sitemap_index, _sitemaps,
                   _url_set, tree, gens>>

\* obj.loc = value.
SetLoc(value) ==
    /\ pc = "records" /\ obj # PyNone
    /\ LET r == loc_setter(value)
       IN  /\ obj' = IF r.ok THEN [obj EXCEPT !.loc = r.val] ELSE obj
           /\ last' = CallWith("loc", value, Outcome(r))
    /\ UNCHANGED <<url, source, pc, error, fetches, is_sitemap_index, _sitemaps,
                   _url_set, tree, gens>>

\* obj.lastmod = value.
SetLastmod(value) ==
    /\ pc = "records" /\ obj # PyNone
    /\ LET r == lastmod_setter(value)
       IN  /\ obj' = IF r.ok THEN [obj EXCEPT !.lastmod = r.val] ELSE obj
           /\ last' = CallWith("lastmod", value, Outcome(r))
    /\ UNCHANGED <<url, source, pc, error, fetches, is_sitemap_index, _sitemaps,
                   _url_set, tree, gens>>

\* obj.changefreq = value, on a Url.
SetChangefreq(value) ==
    /\ pc = "records" /\ obj.t = "Url"
    /\ LET r == changefreq_setter(value)
       IN  /\ obj' = IF r.ok THEN [obj EXCEPT !.changefreq = r.val] ELSE obj
           /\ last' = CallWith("changefreq", value, Outcome(r))
    /\ UNCHANGED <<url, source, pc, error, fetches, is_sitemap_index, _sitemaps,
                   _url_set, tree, gens>>

\* Mutation of SetPriority: the converted float is stored before the range
\* test.
SetPriority_storing(value) ==
    /\ pc = "records" /\ obj.t = "Url"
    /\ LET f == IF value # PyNone THEN float_of(value) ELSE Return(PyNone)
           r == IF f.ok THEN priority_setter(f.val) ELSE f
       IN  /\ obj' = IF f.ok THEN [obj EXCEPT !.priority = f.val] ELSE obj
           /\ last' = CallWith("priority", value, Outcome(r))
    /\ UNCHANGED <<url, source, pc, error, fetches, is_sitemap_index, _sitemaps,
                   _url_set, tree, gens>>

\* obj.priority = value, on a Url: the setter's float(priority), then its
\* range test.
SetPriority(value) ==
    /\ pc = "records" /\ obj.t = "Url"
    /\ LET f == IF value # PyNone THEN float_of(value) ELSE Return(PyNone)
           r == IF f.ok THEN priority_setter(f.val) ELSE f
       IN  /\ obj' = IF r.ok THEN [obj EXCEPT !.priority = r.val] ELSE obj
           /\ last' = CallWith("priority", value, Outcome(r))
    /\ UNCHANGED <<url, source, pc, error, fetches, is_sitemap_index, _sitemaps,
                   _url_set, tree, gens>>

NextRecords ==
    \/ \E kw \in UrlKws : NewUrl(kw)
    \/ \E kw \in SitemapKws : NewSitemap(kw)
    \/ \E value \in LocValues : SetLoc(value)
    \/ \E value \in LastmodValues : SetLastmod(value)
    \/ \E value \in ChangefreqValues : SetChangefreq(value)
    \/ \E value \in PriorityValues : SetPriority(value)

SpecRecords == InitRecords /\ [][NextRecords]_vars

----------------------------------------------------------------------------
(* smapper_utils.ensure_sitemap_url_format, applied to the address a caller *)
(* holds, with no parser involved.                                          *)

\* str.endswith(p).
EndsWith(s, p) ==
    Len(s) >= Len(p) /\ SubSeq(s, Len(s) - Len(p) + 1, Len(s)) = p

\* str.rstrip(c), for a one-character c.
RECURSIVE rstrip(_, _)
rstrip(s, c) ==
    IF Len(s) > 0 /\ SubSeq(s, Len(s), Len(s)) = c
    THEN rstrip(SubSeq(s, 1, Len(s) - 1), c)
    ELSE s

\* The default of the parameter default_scheme.
DefaultScheme == "https://"

ensure_sitemap_url_format(u, default_scheme) ==
    LET schemed == IF ~(StartsWith(u, "https://") \/ StartsWith(u, "http://"))
                   THEN default_scheme \o u
                   ELSE u
    IN  IF ~EndsWith(schemed, "sitemap.xml")
        THEN rstrip(schemed, "/") \o "/sitemap.xml"
        ELSE schemed

\* The addresses of test_smapper_utils.py and their like: a scheme or none,
\* a host or none, and an ending.
UrlSchemes == {"", "http://", "https://", "ftp://", "HTTP://"}

UrlHosts == {"", "example.com", "www.example.com", "sitemap.xml"}

UrlEndings ==
    {"", "/", "//", "/sitemap.xml", "/sitemap.xml/", "/page", "/Sitemap.xml"}

UrlInputs ==
    {p \o h \o e : p \in UrlSchemes, h \in UrlHosts, e \in UrlEndings}

InitUrls ==
    /\ source = [is_data_string |-> TRUE, doc |-> MalformedDoc, net |-> "unused"]
    /\ pc = "urls"
    /\ error = PyNone
    /\ fetches = 0
    /\ is_sitemap_index = FALSE
    /\ _sitemaps = PyNone
    /\ _url_set = PyNone
    /\ tree = PyNone
    /\ gens = [i \in IterIds |-> NoGen]
    /\ last = Call("none", Return(PyNone))
    /\ obj = PyNone
    /\ url \in UrlInputs

\* url = ensure_sitemap_url_format(url).
EnsureCall ==
    /\ pc = "urls"
    /\ url' = ensure_sitemap_url_format(url, DefaultScheme)
    /\ last' = CallWith("ensure_sitemap_url_format", PyStr(url), Return(PyStr(url')))
    /\ UNCHANGED <<obj, source, pc, error, fetches, is_sitemap_index, _sitemaps,
                   _url_set, tree, gens>>

NextUrls == EnsureCall

SpecUrls == InitUrls /\ [][NextUrls]_vars

----------------------------------------------------------------------------
(* Properties. *)

Constructed == pc = "constructed"

\* The root element of the parsed document (of a constructed parser).
Root == source.doc.root

Contains(s, sub) ==
    \E i \in 1..(Len(s) - Len(sub) + 1) : SubSeq(s, i, i + Len(sub) - 1) = sub

\* A failed accessor call is the last call.
AccessorFailed(op) == Constructed /\ last.op = op /\ ~last.res.ok

\* The text of the sub-element named name, None when there is none.
FieldText(node, name) ==
    IF \E i \in 1..Len(node.subs) : node.subs[i].local = name
    THEN node.subs[CHOOSE i \in 1..Len(node.subs) : node.subs[i].local = name].text
    ELSE PyNone

IsHttpUrl(text) ==
    /\ text # PyNone
    /\ \/ Len(text.v) >= 7 /\ SubSeq(text.v, 1, 7) = "http://"
       \/ Len(text.v) >= 8 /\ SubSeq(text.v, 1, 8) = "https://"

DateOf(text) == IF text = PyNone THEN PyNone ELSE isoparse(text.v).val

NumberOf(text) == IF text = PyNone THEN PyNone ELSE float(text.v).val

NoRepeatedSubs(node) ==
    \A i, j \in 1..Len(node.subs) :
        node.subs[i].local = node.subs[j].local => i = j

\* A <url> element as the protocol wants it: a loc that is an http(s) URL,
\* and each optional field absent or well-formed.
ValidUrlNode(node) ==
    /\ node.kind = "element" /\ node.local = "url"
    /\ NoRepeatedSubs(node)
    /\ IsHttpUrl(FieldText(node, "loc"))
    /\ LET m == FieldText(node, "lastmod")
           c == FieldText(node, "changefreq")
           q == FieldText(node, "priority")
       IN  /\ m # PyNone => isoparse(m.v).ok
           /\ c # PyNone => c.v \in valid_freqs
           /\ q # PyNone => /\ float(q.v).ok
                            /\ ~float(q.v).val.nan
                            /\ float(q.v).val.tenths \in 0..10

\* A <sitemap> element as the protocol wants it: only loc and lastmod, each
\* with text.
ValidSitemapNode(node) ==
    /\ node.kind = "element" /\ node.local = "sitemap"
    /\ NoRepeatedSubs(node)
    /\ \A i \in 1..Len(node.subs) :
          node.subs[i].local \in {"loc", "lastmod"} /\ node.subs[i].text # PyNone
    /\ IsHttpUrl(FieldText(node, "loc"))
    /\ LET m == FieldText(node, "lastmod") IN m # PyNone => isoparse(m.v).ok

ExpectedUrl(node) ==
    [t |-> "Url", loc |-> FieldText(node, "loc"),
     lastmod |-> DateOf(FieldText(node, "lastmod")),
     changefreq |-> FieldText(node, "changefreq"),
     priority |-> NumberOf(FieldText(node, "priority"))]

ExpectedSitemap(node) ==
    [t |-> "Sitemap", loc |-> FieldText(node, "loc"),
     lastmod |-> DateOf(FieldText(node, "lastmod"))]

ValidUrlSetDoc ==
    /\ Constructed /\ Root.local = "urlset"
    /\ \A k \in 1..Len(Root.children) : ValidUrlNode(Root.children[k])

ValidSitemapIndexDoc ==
    /\ Constructed /\ Root.local = "sitemapindex"
    /\ \A k \in 1..Len(Root.children) : ValidSitemapNode(Root.children[k])

\* The child elements of the root, in document order.
ChildElements == SelectSeq(Root.children, IsElementNode)

\* C1: for a constructed parser exactly one of has_sitemaps() and has_urls()
\* is true, in every state after construction.
C1_ExactlyOneKind ==
    Constructed =>
        /\ has_sitemaps(Self) # has_urls(Self)
        /\ last.op = "has_sitemaps" => last.res.val.v = (~has_urls(Self))
        /\ last.op = "has_urls" => last.res.val.v = (~has_sitemaps(Self))

C1_Witness ==
    /\ Constructed /\ last.op = "has_urls"
    /\ last.res.val.v /\ ~has_sitemaps(Self)

\* C2: a constructed parser stores exactly one collection, the one matching
\* is_sitemap_index, and no accessor or export call ends in the defensive
\* "... are not available" errors.
C2_OneCollection ==
    Constructed =>
        /\ is_sitemap_index <=> (_sitemaps # PyNone /\ _url_set = PyNone)
        /\ ~is_sitemap_index <=> (_url_set # PyNone /\ _sitemaps = PyNone)
        /\ tree = Root
        /\ _sitemaps # PyNone => _sitemaps = SitemapIndex(RootRef)
        /\ _url_set # PyNone => _url_set = UrlSet(RootRef)
        /\ \A r \in {get_sitemaps(Self), get_urls(Self)} :
              ~r.ok => r.msg \notin {"Sitemaps are not available",
                                     "URLs are not available"}
        /\ (last.op \in {"get_sitemaps", "get_urls", "export_sitemaps",
                         "export_urls"} /\ ~last.res.ok)
             => last.res.msg \notin {"Sitemaps are not available",
                                     "URLs are not available"}

C2_Witness ==
    /\ Constructed /\ last.op = "get_urls" /\ last.res.ok
    /\ last.res.val = _url_set /\ _sitemaps = PyNone

\* C3: once constructed, no call (has_*, get_*, successful or failing, iter,
\* next, export) changes the classification or the stored collections, and
\* has_sitemaps()/has_urls() keep their answers.
C3_Immutable ==
    [][Constructed =>
          /\ Constructed'
          /\ is_sitemap_index' = is_sitemap_index
          /\ _sitemaps' = _sitemaps
          /\ _url_set' = _url_set
          /\ tree' = tree
          /\ has_sitemaps(Self)' = has_sitemaps(Self)
          /\ has_urls(Self)' = has_urls(Self)]_vars

C3_Witness ==
    /\ AccessorFailed("get_sitemaps")
    /\ gens[1].state = "finished" /\ Len(gens[1].out) = MaxChildren
    /\ _sitemaps = PyNone /\ _url_set = UrlSet(RootRef) /\ tree = Root

\* C4: get_sitemaps() returns the stored SitemapIndex iff has_sitemaps(), and
\* otherwise raises KeyError; get_urls() likewise with has_urls(); exactly one
\* of the two succeeds, also right after the other has failed.
C4_Accessors ==
    Constructed =>
        LET s == get_sitemaps(Self)
            u == get_urls(Self)
        IN  /\ s.ok <=> has_sitemaps(Self)
            /\ u.ok <=> has_urls(Self)
            /\ s.ok # u.ok
            /\ s.ok => s.val = _sitemaps /\ s.val = SitemapIndex(RootRef)
            /\ u.ok => u.val = _url_set /\ u.val = UrlSet(RootRef)
            /\ tree = Root
            /\ ~s.ok => s.exc = "KeyError"
            /\ ~u.ok => u.exc = "KeyError"
            /\ last.op = "get_sitemaps" => last.res = s
            /\ last.op = "get_urls" => last.res = u

C4_Witness ==
    /\ AccessorFailed("get_urls") /\ last.res.exc = "KeyError"
    /\ get_sitemaps(Self).ok

\* C5 as claimed: the error of either accessor called on a document of the
\* other kind names the actual kind of the root.
C5_NamesActualKind ==
    (AccessorFailed("get_sitemaps") \/ AccessorFailed("get_urls"))
        => Contains(last.res.msg, "root is a <" \o Root.local \o ">")

\* C5, amended: get_urls() on a sitemap index names the actual kind and the
\* accessor to use; get_sitemaps() on any other root raises the fixed message
\* that names only the kind the root is not, never the root's own tag.
C5_NamesKindInGetUrlsOnly ==
    /\ AccessorFailed("get_urls") =>
          /\ Root.local = "sitemapindex"
          /\ Contains(last.res.msg, "root is a <sitemapindex>")
          /\ Contains(last.res.msg, "get_sitemaps()")
    /\ AccessorFailed("get_sitemaps") =>
          /\ Root.local # "sitemapindex"
          /\ last.res.msg = "Method called when root is not a <sitemapindex>"
          /\ ~Contains(last.res.msg, "<" \o Root.local \o ">")

C5_Witness == AccessorFailed("get_sitemaps") /\ Root.local = "urlset"

\* C6: the parser is a sitemap index iff the root's local name is
\* sitemapindex, a url set iff it is urlset (the namespace plays no part), and
\* the two element tests never both hold.
C6_ClassifiedByLocalName ==
    Constructed =>
        /\ has_sitemaps(Self) <=> Root.local = "sitemapindex"
        /\ has_urls(Self) <=> Root.local = "urlset"
        /\ ~(_is_sitemap_index_element(Root) /\ _is_url_set_element(Root))

\* C7: a root that is neither sitemapindex nor urlset is not reported as a
\* url set: has_urls() is false and get_urls() returns no UrlSet.
C7_UnknownIsNotUrlSet ==
    (Constructed /\ Root.local \notin {"sitemapindex", "urlset"})
        => ~has_urls(Self) /\ ~get_urls(Self).ok

C9_SitemapIteration ==
    ValidSitemapIndexDoc =>
        \A i \in IterIds :
            LET g == gens[i]
            IN  g.state # "none" =>
                  /\ g.kind = "SitemapIndex"
                  /\ Len(g.out) <= Len(Root.children)
                  /\ \A k \in 1..Len(g.out) :
                        g.out[k] = ExpectedSitemap(Root.children[k])
                  /\ g.state = "finished" => Len(g.out) = Len(Root.children)
                  /\ \A j \in IterIds :
                        (g.state = "finished" /\ gens[j].state = "finished")
                            => gens[j].out = g.out

C9_Witness ==
    /\ ValidSitemapIndexDoc /\ Len(Root.children) = MaxChildren
    /\ Root.children[1] # Root.children[2]
    /\ gens[1].state = "finished" /\ gens[2].state = "finished"
    /\ Len(gens[2].out) = MaxChildren
    /\ gens[1].out[1].lastmod = PyDateTime(2023, 1, 2, 0, 0, 0, TRUE, 0)

\* C10: two iterators over the same collection advance independently: under
\* every interleaving of next() calls, the k-th value an iterator has produced
\* is the record of the k-th child element, however far the other one is.
C10_IndependentIterators ==
    Constructed =>
        \A i \in IterIds :
            LET g == gens[i]
            IN  g.state # "none" =>
                  /\ g.element = RootRef /\ Deref(g.element) = Root
                  /\ g.state = "suspended" => g.pos = Len(g.out)
                  /\ Len(g.out) <= Len(ChildElements)
                  /\ \A k \in 1..Len(g.out) :
                        g.out[k] = IF g.kind = "UrlSet"
                                   THEN ExpectedUrl(ChildElements[k])
                                   ELSE ExpectedSitemap(ChildElements[k])

C10_Witness ==
    /\ Constructed
    /\ gens[1].state = "suspended" /\ gens[2].state = "suspended"
    /\ Len(gens[1].out) = 2 /\ Len(gens[2].out) = 1
    /\ gens[1].out[1] = gens[2].out[1]
    /\ gens[1].out[2] # gens[1].out[1]

----------------------------------------------------------------------------
(* Construction and fetching. *)

\* The request was made and did not end in a success response.
FetchFailed == ~source.is_data_string /\ source.net # "ok"

\* The bytes reached bytes_to_element.
ParseReached == source.is_data_string \/ source.net = "ok"

\* Nothing of a parser exists: no tree, no collection, no iterator, and no
\* method has been called.
NoParser ==
    /\ tree = PyNone
    /\ _sitemaps = PyNone
    /\ _url_set = PyNone
    /\ \A i \in IterIds : gens[i] = NoGen
    /\ last.op \in {"none", "SiteMapParser"}

\* C17: construction is all-or-nothing. A failed fetch or malformed bytes
\* make the constructor raise (XMLSyntaxError for malformed XML) and leave no
\* parser; a parser a caller holds has its tree, its kind and exactly one
\* collection.
C17_AllOrNothing ==
    /\ pc # "new" /\ FetchFailed => pc = "failed"
    /\ pc # "new" /\ ParseReached /\ ~source.doc.wellformed
         => pc = "failed" /\ error = Raise("XMLSyntaxError", "Error parsing XML")
    /\ pc = "failed" => ~error.ok /\ NoParser
    /\ pc = "constructed"
         => /\ error = PyNone
            /\ tree = source.doc.root
            /\ (_sitemaps = PyNone) # (_url_set = PyNone)
            /\ is_sitemap_index = (_sitemaps # PyNone)

C17_Witness ==
    /\ pc = "failed"
    /\ source.is_data_string
    /\ error.exc = "XMLSyntaxError"

\* C18: a transport failure or a non-success status raises the fetcher's
\* error, which leaves the constructor as it is; the body of a non-success
\* response is not parsed.
C18_FetchErrorSurfaces ==
    pc # "new" /\ ~source.is_data_string =>
        /\ source.net = "transport_error"
             => pc = "failed" /\ error = Raise("TransportError", "client.get")
        /\ source.net = "http_error"
             => /\ pc = "failed"
                /\ error = Raise("HTTPStatusError", "raise_for_status")
                /\ NoParser

C18_Witness ==
    /\ pc = "failed"
    /\ source.net = "http_error"
    /\ source.doc.wellformed
    /\ source.doc.root.local = "urlset"
    /\ error.exc = "HTTPStatusError"

\* C19: download_uri_data is called once, in the constructor and ahead of
\* parsing, exactly when the raw-data flag is off; no later call on the parser
\* fetches again, and raw data is parsed as given.
C19_FetchedOnce ==
    /\ pc = "new" => fetches = 0
    /\ pc # "new" => fetches = (IF source.is_data_string THEN 0 ELSE 1)
    /\ pc # "new" /\ FetchFailed => error.exc \in {"TransportError", "HTTPStatusError"}
    /\ pc = "constructed" /\ source.is_data_string => tree = source.doc.root

C19_Witness ==
    /\ pc = "constructed"
    /\ ~source.is_data_string
    /\ fetches = 1
    /\ last.op \in {"export_urls", "next"}

----------------------------------------------------------------------------
(* Records built from irregular children. *)

\* The children the iteration of g walks: every child node of a <urlset>,
\* the child elements of a <sitemapindex>.
Walked(g) == IF g.kind = "UrlSet" THEN Root.children ELSE ChildElements

\* The step is a next() on the live generator of slot i.
NextRan(i) ==
    /\ pc = "constructed"
    /\ gens[i].state = "suspended"
    /\ gens[i].pos < Len(Walked(gens[i]))
    /\ last'.op = "next"
    /\ gens'[i] # gens[i]

\* The child that step builds a record from.
Reached(i) == Walked(gens[i])[gens[i].pos + 1]

\* A <url> child with a loc, one of whose four fields fails validation.
UrlFieldFails(node) ==
    /\ node.kind = "element"
    /\ NoRepeatedSubs(node)
    /\ FieldText(node, "loc") # PyNone
    /\ LET m == FieldText(node, "lastmod")
           c == FieldText(node, "changefreq")
           q == FieldText(node, "priority")
       IN  \/ ~IsHttpUrl(FieldText(node, "loc"))
           \/ m # PyNone /\ ~isoparse(m.v).ok
           \/ c # PyNone /\ c.v \notin valid_freqs
           \/ q # PyNone /\ ~float(q.v).ok
           \/ q # PyNone /\ float(q.v).ok
                /\ (FloatLt(float(q.v).val, PyFloat(0))
                      \/ FloatLt(PyFloat(10), float(q.v).val))

\* A <sitemap> child of loc and lastmod alone, one of which fails validation.
SitemapFieldFails(node) ==
    /\ node.kind = "element"
    /\ NoRepeatedSubs(node)
    /\ SubNames(node.subs) \subseteq {"loc", "lastmod"}
    /\ FieldText(node, "loc") # PyNone
    /\ LET m == FieldText(node, "lastmod")
       IN  \/ ~IsHttpUrl(FieldText(node, "loc"))
           \/ m # PyNone /\ ~isoparse(m.v).ok

FieldFails(kind, node) ==
    IF kind = "UrlSet" THEN UrlFieldFails(node) ELSE SitemapFieldFails(node)

ExpectedRecord(kind, node) ==
    IF kind = "UrlSet" THEN ExpectedUrl(node) ELSE ExpectedSitemap(node)

\* C11: when next() reaches a child one of whose fields fails validation, it
\* raises the ValueError; the iteration has yielded the records of the
\* children before it, in order, and yields nothing more: the generator is
\* finished, and a finished generator never yields again.
C11_StopsAtMalformedChild ==
    [][\A i \in IterIds :
          /\ (NextRan(i) /\ FieldFails(gens[i].kind, Reached(i)))
               => /\ ~last'.res.ok
                  /\ last'.res.exc = "ValueError"
                  /\ gens'[i].state = "finished"
                  /\ gens'[i].out = gens[i].out
                  /\ Len(gens[i].out) = gens[i].pos
                  /\ \A k \in 1..gens[i].pos :
                        gens[i].out[k]
                          = ExpectedRecord(gens[i].kind, Walked(gens[i])[k])
          /\ (gens[i].state = "finished" /\ last'.op = "next")
               => gens'[i] = gens[i]]_vars

C11_Witness ==
    /\ Constructed /\ Root.local = "sitemapindex"
    /\ Len(Root.children) = 2
    /\ SitemapFieldFails(Root.children[2])
    /\ gens[1].state = "finished" /\ gens[1].pos = 1 /\ Len(gens[1].out) = 1
    /\ last.op = "next" /\ ~last.res.ok /\ last.res.exc = "ValueError"

\* C15: building a record from a child element without a <loc> sub-element
\* fails with a ValueError, the error of a malformed field value, for <url>
\* and <sitemap> children alike.
C15_MissingLocIsValueError ==
    [][\A i \in IterIds :
          (NextRan(i) /\ Reached(i).kind = "element"
                      /\ "loc" \notin SubNames(Reached(i).subs))
            => ~last'.res.ok /\ last'.res.exc = "ValueError"]_vars

\* The fields of the record type a collection builds.
Recognized(kind) ==
    IF kind = "UrlSet" THEN Range(UrlFields) ELSE Range(SitemapFields)

\* The element without the sub-elements whose local name is not in names.
Strip(node, names) ==
    LET keep(e) == e.local \in names
    IN  [node EXCEPT !.subs = SelectSeq(node.subs, keep)]

\* C16: a child element with sub-elements outside the record type's fields
\* gives what the same element without them gives, for <url> and <sitemap>
\* children alike.
C16_UnrecognizedIgnored ==
    [][\A i \in IterIds :
          (NextRan(i) /\ Reached(i).kind = "element"
                      /\ ~(SubNames(Reached(i).subs) \subseteq Recognized(gens[i].kind)))
            => last'.res
                 = GenBuild(gens[i], Strip(Reached(i), Recognized(gens[i].kind)))]_vars

----------------------------------------------------------------------------
(* JSON export. json.loads, for the texts json.dumps writes of a list of     *)
(* flat objects: strings without escapes, null, NaN and numbers.            *)

JsonFail == [ok |-> FALSE]

JsonOk(val, next) == [ok |-> TRUE, val |-> val, next |-> next]

\* s[a..b], or the empty string when that reaches past the end.
Slice(s, a, b) == IF a >= 1 /\ b <= Len(s) THEN SubSeq(s, a, b) ELSE ""

RECURSIVE IndexFrom(_, _, _)
\* The index of the first c at or after i, or Len(s) + 1.
IndexFrom(s, c, i) ==
    IF i > Len(s) \/ CharAt(s, i) = c THEN i ELSE IndexFrom(s, c, i + 1)

RECURSIVE TokenEnd(_, _)
\* The index after the literal or number that starts at i.
TokenEnd(s, i) ==
    IF i > Len(s) \/ CharAt(s, i) \in {",", "}", "]", " "} THEN i
    ELSE TokenEnd(s, i + 1)

\* The JSON value that starts at i.
loads_value(s, i) ==
    IF i > Len(s) THEN JsonFail
    ELSE IF CharAt(s, i) = "\""
    THEN LET j == IndexFrom(s, "\"", i + 1)
         IN  IF j > Len(s) THEN JsonFail
             ELSE JsonOk(PyStr(Slice(s, i + 1, j - 1)), j + 1)
    ELSE LET j   == TokenEnd(s, i)
             tok == Slice(s, i, j - 1)
         IN  IF tok = "null" THEN JsonOk(PyNone, j)
             ELSE IF tok = "NaN" THEN JsonOk(PyNaN, j)
             ELSE IF tok # "nan" /\ float(tok).ok THEN JsonOk(float(tok).val, j)
             ELSE JsonFail

RECURSIVE loads_members(_, _, _)
\* The members of an object from i on, as <<key, value>> pairs in the order
\* of the text, up to the closing brace.
loads_members(s, i, acc) ==
    IF i > Len(s) THEN JsonFail
    ELSE IF CharAt(s, i) = "}" THEN JsonOk(acc, i + 1)
    ELSE IF acc # <<>> /\ Slice(s, i, i + 1) # ", " THEN JsonFail
    ELSE LET key == loads_value(s, IF acc = <<>> THEN i ELSE i + 2)
         IN  IF ~key.ok THEN JsonFail
             ELSE IF key.val.t # "str" \/ Slice(s, key.next, key.next + 1) # ": "
             THEN JsonFail
             ELSE LET v == loads_value(s, key.next + 2)
                  IN  IF ~v.ok THEN JsonFail
                      ELSE loads_members(s, v.next,
                                         Append(acc, <<key.val.v, v.val>>))

RECURSIVE loads_rows(_, _, _)
\* The objects of a list from i on, up to the closing bracket that ends s.
loads_rows(s, i, acc) ==
    IF i > Len(s) THEN JsonFail
    ELSE IF CharAt(s, i) = "]"
    THEN (IF i = Len(s) THEN JsonOk(acc, i + 1) ELSE JsonFail)
    ELSE IF acc # <<>> /\ Slice(s, i, i + 1) # ", " THEN JsonFail
    ELSE LET k == IF acc = <<>> THEN i ELSE i + 2
         IN  IF Slice(s, k, k) # "{" THEN JsonFail
             ELSE LET m == loads_members(s, k + 1, <<>>)
                  IN  IF ~m.ok THEN JsonFail
                      ELSE loads_rows(s, m.next, Append(acc, m.val))

loads(s) == IF Slice(s, 1, 1) = "[" THEN loads_rows(s, 2, <<>>) ELSE JsonFail

RECURSIVE Drain(_)
\* The generator after a for loop has run it to its end or to its exception.
Drain(g) == LET n == gen_next(g) IN IF n.res.ok THEN Drain(n.gen) ELSE n.gen

\* The records list(collection) holds.
RecordsOf(collection) == Drain(__iter__(collection)).out

\* a == b on Python values: nan equals nothing.
PyEq(a, b) == a = b /\ ~(a.t = "float" /\ a.nan)

\* The parsed object has the fields as its keys, in order, and the record's
\* values: a datetime as a text that parses back to it.
JsonMatches(row, rec, fields) ==
    /\ Len(row) = Len(fields)
    /\ \A i \in 1..Len(fields) :
          /\ row[i][1] = fields[i]
          /\ LET v == rec[fields[i]]
                 j == row[i][2]
             IN  IF v.t = "datetime"
                 THEN j.t = "str" /\ isoparse(j.v) = Return(v)
                 ELSE PyEq(j, v)

RoundTrips(text, collection, fields) ==
    LET rows == loads(text)
        recs == RecordsOf(collection)
    IN  /\ rows.ok
        /\ Len(rows.val) = Len(recs)
        /\ \A k \in 1..Len(recs) : JsonMatches(rows.val[k], recs[k], fields)

\* C20: the text export_urls() (export_sitemaps()) returns parses to one
\* object per record of get_urls() (get_sitemaps()), in iteration order, with
\* the record type's fields as keys in their fixed order and the record's
\* values: lastmod as its ISO-8601 text, an absent value as null.
C20_ExportRoundTrip ==
    /\ last.op = "export_urls" /\ last.res.ok
         => RoundTrips(last.res.val.v, _url_set, UrlFields)
    /\ last.op = "export_sitemaps" /\ last.res.ok
         => RoundTrips(last.res.val.v, _sitemaps, SitemapFields)

----------------------------------------------------------------------------
(* Field validation of the records. *)

\* The last call was the constructor of a record.
Constructing == last.op \in {"Url", "Sitemap"}

RaisedValueError == ~last.res.ok /\ last.res.exc = "ValueError"

\* C12: a record a caller holds has a loc that starts with http:// or
\* https://, whatever was assigned since; constructing with or assigning any
\* other value, None included, raises ValueError, and a value that matches is
\* stored.
C12_LocIsHttpUrl ==
    /\ obj # PyNone => obj.loc.t = "str" /\ obj.loc.v # "" /\ IsHttpUrl(obj.loc)
    /\ Constructing /\ ~IsHttpUrl(last.arg.loc) => RaisedValueError
    /\ last.op = "loc" /\ ~IsHttpUrl(last.arg) => RaisedValueError
    /\ last.op = "loc" /\ IsHttpUrl(last.arg) => last.res.ok /\ obj.loc = last.arg

C12_Witness ==
    /\ obj # PyNone /\ obj.loc = Loc2
    /\ last.op = "loc" /\ last.arg = PyNone /\ RaisedValueError

\* The seven change frequencies of the protocol.
SevenFreqs ==
    {PyStr("always"), PyStr("hourly"), PyStr("daily"), PyStr("weekly"),
     PyStr("monthly"), PyStr("yearly"), PyStr("never")}

\* C13: a Url's changefreq is None or one of the seven frequencies;
\* constructing with or assigning any other non-null value raises ValueError,
\* and None or one of the seven is stored and read back as assigned.
C13_ChangefreqIsValid ==
    /\ obj.t = "Url" => obj.changefreq \in SevenFreqs \cup {PyNone}
    /\ last.op = "Url" /\ last.arg.changefreq \notin SevenFreqs \cup {PyNone}
         => RaisedValueError
    /\ last.op = "changefreq" /\ last.arg \notin SevenFreqs \cup {PyNone}
         => RaisedValueError
    /\ last.op = "changefreq" /\ last.arg \in SevenFreqs \cup {PyNone}
         => last.res.ok /\ obj.changefreq = last.arg

C13_Witness ==
    /\ obj.t = "Url" /\ obj.changefreq = PyStr("never")
    /\ last.op = "changefreq" /\ last.arg = PyStr("Daily") /\ RaisedValueError

\* The number a priority argument stands for, when it is one.
IsNumber(value) ==
    value # PyNone /\ float_of(value).ok /\ ~float_of(value).val.nan

OutOfRange(value) ==
    IsNumber(value) /\ float_of(value).val.tenths \notin 0..10

\* C14: a Url's priority is None or a number from 0.0 to 1.0; constructing
\* with or assigning a value below 0.0 or above 1.0 raises ValueError, and
\* 0.0 and 1.0 are accepted.
C14_PriorityInRange ==
    /\ obj.t = "Url" /\ obj.priority # PyNone
         => ~obj.priority.nan /\ obj.priority.tenths \in 0..10
    /\ last.op = "Url" /\ OutOfRange(last.arg.priority) => RaisedValueError
    /\ last.op = "priority" /\ OutOfRange(last.arg) => RaisedValueError
    /\ last.op = "priority" /\ last.arg \in {PyFloat(0), PyFloat(10)}
         => last.res.ok /\ obj.priority = last.arg

----------------------------------------------------------------------------
(* The address formatting of smapper_utils. *)

HasScheme(s) == StartsWith(s, "http://") \/ StartsWith(s, "https://")

\* s without its trailing slashes: the longest prefix of s that does not end
\* with a slash.
Stripped(s) ==
    LET n == CHOOSE n \in 0..Len(s) :
                 /\ n = 0 \/ CharAt(s, n) # "/"
                 /\ \A k \in (n + 1)..Len(s) : CharAt(s, k) = "/"
    IN  SubSeq(s, 1, n)

\* C22: for every input, ensure_sitemap_url_format with the default scheme
\* returns a string that starts with http:// or https:// and ends with
\* sitemap.xml; an input's own scheme is kept, https:// is prepended to an
\* input without one, an ending sitemap.xml is kept, and otherwise the
\* trailing slashes are removed and /sitemap.xml is appended.
C22_SchemeAndEnding ==
    last.op = "ensure_sitemap_url_format" =>
        LET u == last.arg.v
            r == last.res.val.v
            schemed == IF HasScheme(u) THEN u ELSE "https://" \o u
        IN  /\ HasScheme(r)
            /\ EndsWith(r, "sitemap.xml")
            /\ StartsWith(u, "http://") => StartsWith(r, "http://")
            /\ StartsWith(u, "https://") => StartsWith(r, "https://")
            /\ ~HasScheme(u) => StartsWith(r, "https://")
            /\ r = IF EndsWith(u, "sitemap.xml")
                   THEN schemed
                   ELSE Stripped(schemed) \o "/sitemap.xml"

\* C30: ensure_sitemap_url_format is idempotent with the default scheme:
\* applied to its own result, it returns that result.
C30_Idempotent ==
    [][(last.op = "ensure_sitemap_url_format"
        /\ last'.op = "ensure_sitemap_url_format") => url' = url]_vars

----------------------------------------------------------------------------
(* Assignments and construction order of the records. *)

\* What assigning value to the field name alone does: the setter's outcome.
FieldOutcome(name, value) ==
    CASE name = "loc" -> loc_setter(value)
      [] name = "lastmod" -> lastmod_setter(value)
      [] name = "changefreq" -> changefreq_setter(value)
      [] name = "priority" ->
            IF value = PyNone THEN Return(PyNone)
            ELSE IF float_of(value).ok THEN priority_setter(float_of(value).val)
            ELSE float_of(value)

\* C26: an assignment to loc, lastmod, changefreq or priority that raises
\* leaves the record as it was: the assigned field keeps its value and the
\* other fields are untouched.
C26_RejectedAssignmentKeepsRecord ==
    [][(last'.op \in {"loc", "lastmod", "changefreq", "priority"}
        /\ ~last'.res.ok) => obj' = obj]_vars

C26_Witness ==
    /\ obj.t = "Url" /\ obj.priority = PyFloat(3)
    /\ obj.changefreq = PyStr("daily") /\ obj.lastmod # PyNone
    /\ last.op = "priority" /\ last.arg = PyFloat(15) /\ RaisedValueError

\* C29: Url(...) validates loc, lastmod, changefreq, priority in this order
\* and stops at the first invalid one: the error raised is that of the
\* earliest invalid field, and a call that raises hands no Url to the caller.
C29_FirstInvalidFieldWins ==
    [][last'.op = "Url" =>
          LET kw == last'.arg
              l  == FieldOutcome("loc", kw.loc)
              m  == FieldOutcome("lastmod", kw.lastmod)
              c  == FieldOutcome("changefreq", kw.changefreq)
              q  == FieldOutcome("priority", kw.priority)
          IN  IF l.ok /\ m.ok /\ c.ok /\ q.ok
              THEN last'.res.ok /\ obj'.t = "Url"
              ELSE /\ obj' = obj
                   /\ last'.res = IF ~l.ok THEN l
                                  ELSE IF ~m.ok THEN m
                                  ELSE IF ~c.ok THEN c
                                  ELSE q]_vars

C29_Witness ==
    /\ last.op = "Url"
    /\ last.arg = [loc |-> Loc1, lastmod |-> PyStr("2019-13-01T01:33:35+00:00"),
                   changefreq |-> PyStr("invalid"), priority |-> PyFloat(15)]
    /\ last.res = Raise("ValueError", "isoparse")
    /\ obj.t = "Sitemap"

----------------------------------------------------------------------------
(* Field elements without text. *)

\* The sub-element named name is there and has no text.
EmptyField(node, name) ==
    \E k \in 1..Len(node.subs) :
        node.subs[k].local = name /\ node.subs[k].text = PyNone

\* The keyword arguments the claim expects: each sub-element's text, the
\* empty string for a sub-element without text.
TextsOf(node) ==
    [name \in SubNames(node.subs) |->
        IF EmptyField(node, name) THEN PyStr("") ELSE FieldText(node, name)]

\* C25: a <sitemap> child with a <loc> or <lastmod> that has no text is built
\* as Sitemap is constructed with the empty string for that field: an empty
\* <loc> is rejected as the empty string is, and an empty <lastmod> is
\* rejected as a date (where an absent one would be accepted as None).
C25_EmptyTextIsEmptyString ==
    [][\A i \in IterIds :
          (NextRan(i) /\ gens[i].kind = "SitemapIndex"
                      /\ Reached(i).kind = "element"
                      /\ NoRepeatedSubs(Reached(i))
                      /\ SubNames(Reached(i).subs) \subseteq {"loc", "lastmod"})
            => /\ EmptyField(Reached(i), "loc")
                    => last'.res = Raise("ValueError", " is not a valid URL")
               /\ (IsHttpUrl(FieldText(Reached(i), "loc"))
                     /\ EmptyField(Reached(i), "lastmod"))
                    => ~last'.res.ok /\ last'.res.exc = "ValueError"
               /\ (EmptyField(Reached(i), "loc")
                     \/ EmptyField(Reached(i), "lastmod"))
                    => last'.res = Sitemap(TextsOf(Reached(i)))]_vars

C25_Witness ==
    /\ Constructed /\ Root.local = "sitemapindex"
    /\ Len(Root.children) = 2
    /\ EmptyField(Root.children[2], "lastmod")
    /\ IsHttpUrl(FieldText(Root.children[2], "loc"))
    /\ gens[1].state = "finished" /\ gens[1].pos = 1 /\ Len(gens[1].out) = 1
    /\ last.op = "next" /\ ~last.res.ok /\ last.res.exc = "ValueError"

----------------------------------------------------------------------------
(* Iterations: their length, their end, and what they leave alone. *)

\* Every child of the root is as the protocol wants it, for the collection
\* of kind kind.
AllChildrenValid(kind) ==
    \A k \in 1..Len(Root.children) :
        IF kind = "UrlSet" THEN ValidUrlNode(Root.children[k])
        ELSE ValidSitemapNode(Root.children[k])

\* C24: an iterator over a root with N immediate children has yielded at most
\* N records; a next() that yields nothing signals exhaustion or raises a
\* validation error (ValueError); and an iterator that has ended over
\* children that are all valid has yielded exactly N records.
C24_IterationIsFinite ==
    Constructed =>
        /\ \A i \in IterIds :
              /\ Len(gens[i].out) <= Len(Root.children)
              /\ gens[i].pos <= Len(Root.children)
              /\ (gens[i].state = "finished" /\ AllChildrenValid(gens[i].kind))
                   => Len(gens[i].out) = Len(Root.children)
        /\ (last.op = "next" /\ ~last.res.ok)
             => last.res.exc \in {"StopIteration", "ValueError"}

\* C23: obtaining an iterator and advancing it, to a record, to exhaustion or
\* into an error, leaves the root element with its children and the
\* collection objects as they were, and moves no iterator but the one the
\* call is on: the collection keeps no cursor.
C23_PureTraversal ==
    [][last'.op \in {"iter", "next"} =>
          /\ tree' = tree
          /\ tree' = Root
          /\ _sitemaps' = _sitemaps
          /\ _url_set' = _url_set
          /\ is_sitemap_index' = is_sitemap_index
          /\ \E i \in IterIds : \A j \in IterIds \ {i} : gens'[j] = gens[j]
          /\ last'.op = "iter"
               => \E i \in IterIds : gens'[i].pos = 0 /\ gens'[i].out = <<>>]_vars

C23_Witness ==
    /\ Constructed /\ tree = Root /\ Len(Root.children) = 2
    /\ gens[1].state = "finished" /\ gens[1].pos = 1
    /\ gens[2].state = "suspended" /\ gens[2].pos = 1
    /\ last.op = "next" /\ ~last.res.ok /\ last.res.exc = "ValueError"

----------------------------------------------------------------------------
(* Lazy validation. *)

\* The kind of collection the parser stores for the root.
RootKind == IF Root.local = "sitemapindex" THEN "SitemapIndex" ELSE "UrlSet"

\* The document has a child one of whose fields fails validation.
HasMalformedChild ==
    \E k \in 1..Len(Root.children) : FieldFails(RootKind, Root.children[k])

\* C27: over a well-formed document with a malformed record the constructor
\* succeeds, has_sitemaps(), has_urls(), get_sitemaps() and get_urls() answer
\* by the root's kind alone, none of them nor iter() raises the validation
\* error, and a next() raises it only at the malformed child.
C27_ValidatedOnAdvance ==
    (pc # "new" /\ source.doc.wellformed /\ HasMalformedChild) =>
        /\ Constructed /\ error = PyNone
        /\ last.op = "has_sitemaps"
             => last.res = Return(PyBool(Root.local = "sitemapindex"))
        /\ last.op = "has_urls"
             => last.res = Return(PyBool(Root.local # "sitemapindex"))
        /\ last.op = "get_sitemaps"
             => IF Root.local = "sitemapindex"
                THEN last.res = Return(SitemapIndex(RootRef))
                ELSE ~last.res.ok /\ last.res.exc = "KeyError"
        /\ last.op = "get_urls"
             => IF Root.local # "sitemapindex"
                THEN last.res = Return(UrlSet(RootRef))
                ELSE ~last.res.ok /\ last.res.exc = "KeyError"
        /\ last.op \in {"SiteMapParser", "has_sitemaps", "has_urls",
                        "get_sitemaps", "get_urls", "iter"}
             => last.res.ok \/ last.res.exc # "ValueError"
        /\ (last.op = "next" /\ ~last.res.ok /\ last.res.exc = "ValueError")
             => \E i \in IterIds :
                   /\ gens[i].state = "finished"
                   /\ gens[i].pos < Len(Walked(gens[i]))
                   /\ FieldFails(gens[i].kind, Walked(gens[i])[gens[i].pos + 1])

C27_Witness ==
    /\ Constructed /\ Len(Root.children) = 2
    /\ FieldFails(RootKind, Root.children[1])
    /\ gens[1].state = "finished" /\ gens[1].pos = 0
    /\ last.op = "get_urls" /\ last.res = Return(UrlSet(RootRef))

----------------------------------------------------------------------------
(* Iterators a validation error has ended. *)

\* The generator ended with the validation error of the child behind pos.
Died(g) ==
    /\ g.state = "finished"
    /\ g.pos < Len(Walked(g))
    /\ FieldFails(g.kind, Walked(g)[g.pos + 1])

\* C28: an iterator that raised a validation error at child k stays finished:
\* a further next() reports exhaustion and yields nothing. An iterator
\* obtained afterwards gets no further than child k, where it fails with the
\* error the child's field gives, having yielded the same records.
C28_FinishedStaysFinished ==
    [][/\ (last'.op = "next" /\ gens' = gens)
            => last'.res = Raise("StopIteration", "")
       /\ \A i \in IterIds :
             /\ (Died(gens[i]) /\ last'.op = "next") => gens'[i] = gens[i]
             /\ \A j \in IterIds \ {i} :
                   (Died(gens[j]) /\ gens[i].kind = gens[j].kind)
                     => /\ gens[i].pos <= gens[j].pos
                        /\ (NextRan(i) /\ gens[i].pos = gens[j].pos)
                             => /\ last'.res
                                     = Raise("ValueError",
                                             FieldText(Reached(i), "loc").v
                                               \o " is not a valid URL")
                                /\ gens'[i].state = "finished"
                                /\ gens'[i].pos = gens[j].pos
                                /\ gens'[i].out = gens[j].out]_vars

C28_Witness ==
    /\ Constructed /\ Len(Root.children) = 2
    /\ Died(gens[1]) /\ gens[1].pos = 1 /\ Len(gens[1].out) = 1
    /\ Died(gens[2]) /\ gens[2] = gens[1]
    /\ last.op = "next" /\ last.res = Raise("StopIteration", "")

----------------------------------------------------------------------------
(* The kinds of error. *)

\* The kind a caller takes an exception for, by its class.
ErrorKind(exc) ==
    CASE exc \in {"TransportError", "HTTPStatusError"} -> "fetch"
      [] exc = "XMLSyntaxError" -> "syntax"
      [] exc = "ValueError" -> "validation"
      [] exc = "KeyError" -> "wrong-kind"
      [] OTHER -> "other"

\* A child with a field element that has no text and that the collection of
\* kind kind validates as a string.
FaultyChild(kind, node) ==
    \/ EmptyField(node, "loc")
    \/ kind = "SitemapIndex" /\ EmptyField(node, "lastmod")

HasFaultyChild ==
    \E k \in 1..Len(Root.children) : FaultyChild(RootKind, Root.children[k])

\* C21: each error reaches the caller of the operation that hit it, as an
\* exception of its own kind: a failed request and a malformed document make
\* the constructor raise a fetch error and a syntax error; an accessor or
\* export of the other kind raises the wrong-kind error, whether or not the
\* document has malformed records; a next() or an export that reaches a
\* malformed record raises the validation error, never the wrong-kind one.
C21_ErrorKindsDistinct ==
    /\ pc # "new" /\ (FetchFailed \/ ~source.doc.wellformed) => pc = "failed"
    /\ pc = "failed"
         => /\ ~error.ok
            /\ ErrorKind(error.exc) = IF FetchFailed THEN "fetch" ELSE "syntax"
    /\ Constructed =>
         /\ ~last.res.ok
              => last.res.exc = "StopIteration"
                   \/ ErrorKind(last.res.exc) \in {"validation", "wrong-kind"}
         /\ (\/ last.op \in {"get_sitemaps", "export_sitemaps"}
                  /\ RootKind # "SitemapIndex"
             \/ last.op \in {"get_urls", "export_urls"} /\ RootKind # "UrlSet")
              => ~last.res.ok /\ ErrorKind(last.res.exc) = "wrong-kind"
         /\ (\/ last.op = "get_sitemaps" /\ RootKind = "SitemapIndex"
             \/ last.op = "get_urls" /\ RootKind = "UrlSet")
              => last.res.ok
         /\ (\/ last.op = "export_sitemaps" /\ RootKind = "SitemapIndex"
             \/ last.op = "export_urls" /\ RootKind = "UrlSet")
              => IF HasFaultyChild
                 THEN ~last.res.ok /\ ErrorKind(last.res.exc) = "validation"
                 ELSE last.res.ok
         /\ (last.op = "next" /\ ~last.res.ok)
              => \/ last.res.exc = "StopIteration"
                 \/ /\ ErrorKind(last.res.exc) = "validation"
                    /\ \E i \in IterIds :
                          /\ gens[i].state = "finished"
                          /\ gens[i].pos < Len(Walked(gens[i]))
                          /\ FaultyChild(gens[i].kind,
                                         Walked(gens[i])[gens[i].pos + 1])

C21_Witness ==
    /\ Constructed /\ ~source.is_data_string
    /\ RootKind = "SitemapIndex" /\ Len(Root.children) = 2
    /\ FaultyChild(RootKind, Root.children[1])
    /\ gens[1].state = "finished" /\ gens[1].pos = 0
    /\ last.op = "get_urls" /\ ~last.res.ok /\ last.res.exc = "KeyError"

====
